---- MODULE Spec2Model ----
(***************************************************************************)
(* ThreadBound<T> (src/src/thread_bound.rs): a value bound to the thread   *)
(* that created it.  The wrapper is Send + Sync; every access to the       *)
(* payload is preceded by a run-time comparison of the calling thread's    *)
(* id with the recorded thread_id.                                         *)
(*                                                                         *)
(* Spec runs every handler as one action (threads interleave between       *)
(* handlers).  SpecSteps splits every handler in two: the gate step (the   *)
(* call up to and including self.check()) and the payload step (what the   *)
(* handler does with self.value afterwards); between the two the calling   *)
(* thread is inside the payload of the object.                             *)
(***************************************************************************)
EXTENDS Integers, Sequences, FiniteSets, TLC

\* Bounds of the model.
NumThreads == 2
MaxGuards == 2
MaxVal == 1

Threads == 1..NumThreads
GuardIds == 1..MaxGuards
Values == 0..MaxVal

VARIABLES
    needs_drop,   \* needs_drop::<T>() of the payload type T of this run
    guards,       \* the ThreadBound<T> objects: [GuardIds -> ThreadBound]
    pc,           \* per thread: the payload step it is about to take, if any
    last          \* outcome of the handler that just ran, until its caller has it

vars == <<needs_drop, guards, pc, last>>

----------------------------------------------------------------------------
\* The struct, lines 34-38.  st tells whether the slot holds an object:
\* "free" (never constructed), "live", "gone" (consumed or destroyed).
\* moved is set when ManuallyDrop::take has moved the payload out;
\* teardowns counts the runs of ManuallyDrop::drop on the payload.
ThreadBound(tid, v, tk) ==
    [st |-> "live", thread_id |-> tid, value |-> v, taken |-> tk,
     moved |-> FALSE, teardowns |-> 0]

NoGuard ==
    [st |-> "free", thread_id |-> 0, value |-> 0, taken |-> FALSE,
     moved |-> FALSE, teardowns |-> 0]

\* A destroyed object, with its flags as they were when it was released.
Gone(this) == [this EXCEPT !.st = "gone"]

\* The slot of a destroyed object: its memory has been released.
Released == [NoGuard EXCEPT !.st = "gone"]

\* type_name::<T>(), line 77.
TypeName == "T"

\* A thread between handlers, and a thread past the gate of a handler on g
\* (and g2, for a comparison of two objects) that will access the payload in
\* the given mode.
Idle == [mode |-> "idle", g |-> 0, g2 |-> 0]
Inside(mode, g, g2) == [mode |-> mode, g |-> g, g2 |-> g2]

Unit == [tag |-> "unit", v |-> 0]
Ret(tag, v) == [tag |-> tag, v |-> v]

NoPanic == [panicked |-> FALSE, type_name |-> TypeName, current |-> 0, thread_id |-> 0]

\* What a handler reports: op, the handler; t, the calling thread; g (and g2),
\* the object(s) it was called on; before and after, the object g as it was
\* at the call and as the handler left it; out, "ok" (returned), "panic"
\* (unwinding) or "abort" (panic while unwinding); checks, the number of
\* calls of check() made; panic, the panic message; ret, the value returned.
Outcome(op, t, g, g2, before, after, out, n, p, r) ==
    [op |-> op, t |-> t, g |-> g, g2 |-> g2, before |-> before, after |-> after,
     out |-> out, checks |-> n, panic |-> p, ret |-> r]

\* No handler has an outcome to hand to its caller.
None == Outcome("none", 0, 0, 0, NoGuard, NoGuard, "ok", 0, NoPanic, Unit)

----------------------------------------------------------------------------
\* Variants of the definitions below, each with one slip of the kind the
\* code could have; a property that depends on the code fails under them.
is_usable_always(this, cur) == TRUE
is_usable_inverted(this, cur) == cur # this.thread_id
check_skipped(this, cur) == NoPanic
new_on_first_thread(value, cur) == ThreadBound(1, value, FALSE)
take_value_keeps_flag(this) == [this EXCEPT !.moved = TRUE]
drop_checks_untyped(this) == ~this.taken
clone_of_default(this) == ThreadBound(this.thread_id, 0, this.taken)
debug_shows_value_always(this, cur) == TRUE
moved_to_rebinds(this, dest) == [this EXCEPT !.thread_id = dest]

check_ids_swapped(this, cur) ==
    IF cur # this.thread_id
    THEN [panicked |-> TRUE, type_name |-> TypeName,
          current |-> this.thread_id, thread_id |-> cur]
    ELSE NoPanic
clone_of_taken(this) == ThreadBound(this.thread_id, this.value, TRUE)

\* ThreadBound::is_usable, lines 67-69; cur is thread::current().id().
is_usable(this, cur) == cur = this.thread_id

\* ThreadBound::check, lines 73-82: the panic message, or NoPanic.
check(this, cur) ==
    IF ~is_usable(this, cur)
    THEN [panicked |-> TRUE, type_name |-> TypeName,
          current |-> cur, thread_id |-> this.thread_id]
    ELSE NoPanic

\* ThreadBound::new, lines 45-47.
new(value, cur) == ThreadBound(cur, value, FALSE)

\* T::default(), line 134.
PayloadDefault == 0

\* ThreadBound::thread_id, lines 50-52.
thread_id(this) == this.thread_id

\* into_inner after the gate, lines 61-62.
take_value(this) == [this EXCEPT !.taken = TRUE, !.moved = TRUE]

\* The condition of Drop::drop, line 242.
drop_checks(this) == needs_drop /\ ~this.taken

\* ManuallyDrop::drop(&mut self.value), line 244.
drop_value(this) == [this EXCEPT !.teardowns = @ + 1]

\* The struct literal of Clone::clone, line 145.
clone_of(this) == ThreadBound(this.thread_id, this.value, this.taken)

\* The condition under which Debug::fmt renders the value field, line 110.
debug_shows_value(this, cur) == is_usable(this, cur)

\* A move of the object to another thread (unsafe impl Send, line 40) is a
\* bitwise copy: no field changes.
moved_to(this, dest) == this

\* The payload's own operations (the T behind the trait bounds).
PayloadCmp(a, b) == IF a < b THEN "Less" ELSE IF a = b THEN "Equal" ELSE "Greater"
PayloadPoll(v) ==
    IF v < MaxVal THEN [value |-> v + 1, ret |-> Ret("poll", "Pending")]
    ELSE [value |-> v, ret |-> Ret("poll", "Ready")]

----------------------------------------------------------------------------------------------------------------------------------------------------------------------------------------------------
\* A receiver by value that does not need the object to exist.
CanOwn_any(g) == \A t \in Threads : pc[t].mode = "idle" \/ (pc[t].g # g /\ pc[t].g2 # g)

\* Receivers.  A handler taking &self needs no handler with an exclusive
\* receiver in progress on the object; one taking &mut self, Pin<&mut Self>
\* or self needs no handler in progress on it at all.
Users(g) == {t \in Threads : pc[t].mode # "idle" /\ (pc[t].g = g \/ pc[t].g2 = g)}

CanShare(g) ==
    guards[g].st = "live" /\ \A t \in Users(g) : pc[t].mode \in {"read", "clone"}
CanOwn(g) == guards[g].st = "live" /\ Users(g) = {}

FreeSlots == {g \in GuardIds : guards[g].st = "free"}
Cloning == {t \in Threads : pc[t].mode = "clone"}
\* There is a slot for a new object besides those the clones in progress need.
HasRoom == Cardinality(FreeSlots) > Cardinality(Cloning)
NextSlot == CHOOSE g \in FreeSlots : \A h \in FreeSlots : g <= h

Init ==
    /\ needs_drop \in BOOLEAN
    /\ guards = [g \in GuardIds |-> NoGuard]
    /\ pc = [t \in Threads |-> Idle]
    /\ last = None

\* A thread that starts handlers although the thread of its id has ended
\* (a thread id given to a second thread).
Ready_id_reused(t) == pc[t].mode \in {"idle", "exited"} /\ last = None

\* Thread t may start a handler: it is between handlers, the previous outcome
\* has been handed over and the process has not aborted.
Ready(t) == pc[t] = Idle /\ last = None
\* ... with receiver &self on g; with receiver &mut self or self on g.
ByRef(t, g) == Ready(t) /\ CanShare(g)
ByMut(t, g) == Ready(t) /\ CanOwn(g)

\* Drop::drop with the teardown ahead of the check.
DropInPlace_teardown_first(this, t) ==
    IF drop_checks(this)
    THEN [checks |-> 1, panic |-> check(this, t), this |-> Gone(drop_value(this))]
    ELSE [checks |-> 0, panic |-> NoPanic, this |-> Gone(this)]

\* What Drop::drop, lines 241-246, does to `this` on thread t: the number of
\* checks, the panic message if any, and what is left of the object.
DropInPlace(this, t) ==
    IF drop_checks(this)
    THEN LET c == check(this, t) IN
         [checks |-> 1, panic |-> c,
          this |-> IF c.panicked THEN Gone(this) ELSE Gone(drop_value(this))]
    ELSE [checks |-> 0, panic |-> NoPanic, this |-> Gone(this)]

----------------------------------------------------------------------------
\* Handlers as single actions.

\* A gated handler that uses the payload before it makes the check.
Call_checks_last(op, t, g, after, r) ==
    LET c == check(guards[g], t) IN
    /\ guards' = [guards EXCEPT ![g] = after]
    /\ last' = IF c.panicked
               THEN Outcome(op, t, g, 0, guards[g], after, "panic", 1, c, Unit)
               ELSE Outcome(op, t, g, 0, guards[g], after, "ok", 1, NoPanic, r)
    /\ UNCHANGED <<needs_drop, pc>>

\* A handler on thread t whose first statement is self.check() and which
\* then leaves the object as `after` and returns r.
Call(op, t, g, after, r) ==
    LET c == check(guards[g], t) IN
    /\ guards' = IF c.panicked THEN guards ELSE [guards EXCEPT ![g] = after]
    /\ last' = IF c.panicked
               THEN Outcome(op, t, g, 0, guards[g], guards[g], "panic", 1, c, Unit)
               ELSE Outcome(op, t, g, 0, guards[g], after, "ok", 1, NoPanic, r)
    /\ UNCHANGED <<needs_drop, pc>>

\* A comparison of two objects that checks only self.
Call2_self_only(op, t, g, g2, r) ==
    LET c1 == check(guards[g], t) IN
    /\ last' = IF c1.panicked
               THEN Outcome(op, t, g, g2, guards[g], guards[g], "panic", 1, c1, Unit)
               ELSE Outcome(op, t, g, g2, guards[g], guards[g], "ok", 1, NoPanic, r)
    /\ UNCHANGED <<needs_drop, guards, pc>>

\* A comparison of two objects that checks only other.
Call2_other_only(op, t, g, g2, r) ==
    LET c2 == check(guards[g2], t) IN
    /\ last' = IF c2.panicked
               THEN Outcome(op, t, g, g2, guards[g], guards[g], "panic", 1, c2, Unit)
               ELSE Outcome(op, t, g, g2, guards[g], guards[g], "ok", 1, NoPanic, r)
    /\ UNCHANGED <<needs_drop, guards, pc>>

\* self.check(); other.check(); then r (lines 171-173, 196-198, 219-221).
Call2(op, t, g, g2, r) ==
    LET c1 == check(guards[g], t)
        c2 == check(guards[g2], t) IN
    /\ last' = IF c1.panicked
               THEN Outcome(op, t, g, g2, guards[g], guards[g], "panic", 1, c1, Unit)
               ELSE IF c2.panicked
               THEN Outcome(op, t, g, g2, guards[g], guards[g], "panic", 2, c2, Unit)
               ELSE Outcome(op, t, g, g2, guards[g], guards[g], "ok", 2, NoPanic, r)
    /\ UNCHANGED <<needs_drop, guards, pc>>

\* A handler without check that binds the object to its caller.
Pure_rebinds(op, t, g, r) ==
    /\ guards' = [guards EXCEPT ![g].thread_id = t]
    /\ last' = Outcome(op, t, g, 0, guards[g], guards'[g], "ok", 0, NoPanic, r)
    /\ UNCHANGED <<needs_drop, pc>>

\* A handler that makes no check and changes nothing.
Pure(op, t, g, r) ==
    /\ last' = Outcome(op, t, g, 0, guards[g], guards[g], "ok", 0, NoPanic, r)
    /\ UNCHANGED <<needs_drop, guards, pc>>

\* The caller has the outcome of its call.
Return ==
    /\ last # None /\ last.out # "abort"
    /\ last' = None
    /\ UNCHANGED <<needs_drop, guards, pc>>

\* ThreadBound::new, lines 45-47, called on thread t.
Construct(op, t, v) ==
    /\ Ready(t) /\ HasRoom
    /\ guards' = [guards EXCEPT ![NextSlot] = new(v, t)]
    /\ last' = Outcome(op, t, NextSlot, 0, NoGuard, new(v, t), "ok", 0, NoPanic,
                       Ret("guard", NextSlot))
    /\ UNCHANGED <<needs_drop, pc>>
New(t, v) == Construct("new", t, v)

\* thread_bound, lines 18-20.
ThreadBoundFn(t, v) == Construct("thread_bound", t, v)

\* Default::default, lines 133-135.
Default(t) == Construct("default", t, PayloadDefault)

\* ThreadBound::thread_id, lines 50-52.
ThreadId(t, g) ==
    ByRef(t, g) /\ Pure("thread_id", t, g, Ret("thread_id", thread_id(guards[g])))

\* ThreadBound::is_usable, lines 67-69.
IsUsable(t, g) ==
    ByRef(t, g) /\ Pure("is_usable", t, g, Ret("bool", is_usable(guards[g], t)))

\* The object is moved from thread t to thread dest (Send, line 40).
Send(t, g, dest) ==
    /\ ByMut(t, g)
    /\ guards' = [guards EXCEPT ![g] = moved_to(guards[g], dest)]
    /\ last' = Outcome("send", t, g, 0, guards[g], moved_to(guards[g], dest), "ok", 0,
                       NoPanic, Ret("thread", dest))
    /\ UNCHANGED <<needs_drop, pc>>

\* Deref::deref, lines 88-91.
Deref(t, g) ==
    ByRef(t, g) /\ Call("deref", t, g, guards[g], Ret("ref", guards[g].value))

\* DerefMut::deref_mut, lines 96-99; the caller writes v through the &mut T.
DerefMut(t, g, v) ==
    ByMut(t, g) /\ Call("deref_mut", t, g, [guards[g] EXCEPT !.value = v], Ret("ref", v))

\* Borrow::borrow, lines 151-154.
Borrow(t, g) ==
    ByRef(t, g) /\ Call("borrow", t, g, guards[g], Ret("ref", guards[g].value))

\* BorrowMut::borrow_mut, lines 159-162.
BorrowMut(t, g, v) ==
    ByMut(t, g) /\ Call("borrow_mut", t, g, [guards[g] EXCEPT !.value = v], Ret("ref", v))

\* Display::fmt, lines 122-125.
Display(t, g) ==
    ByRef(t, g) /\ Call("display", t, g, guards[g], Ret("text", guards[g].value))

\* Hash::hash, lines 230-236.
Hash(t, g) ==
    ByRef(t, g) /\ Call("hash", t, g, guards[g], Ret("hash", guards[g].value))

\* Debug::fmt, lines 107-114: never gated; the value field is rendered only
\* when the object is usable from the calling thread.
Debug(t, g) ==
    /\ ByRef(t, g)
    /\ Pure("debug", t, g,
            Ret("debug", [thread_id |-> <<guards[g].thread_id>>,
                          value |-> IF debug_shows_value(guards[g], t)
                                    THEN <<guards[g].value>> ELSE <<>>]))

\* Clone::clone, lines 143-146; the clone is object g2.
Clone(t, g) ==
    /\ ByRef(t, g) /\ HasRoom
    /\ LET c == check(guards[g], t) IN
       /\ guards' = IF c.panicked THEN guards
                    ELSE [guards EXCEPT ![NextSlot] = clone_of(guards[g])]
       /\ last' = IF c.panicked
                  THEN Outcome("clone", t, g, 0, guards[g], guards[g], "panic", 1, c, Unit)
                  ELSE Outcome("clone", t, g, NextSlot, guards[g], guards[g], "ok", 1,
                               NoPanic, Ret("guard", NextSlot))
    /\ UNCHANGED <<needs_drop, pc>>

\* PartialEq<ThreadBound<T>>::eq, lines 170-174.
Eq(t, g, g2) ==
    /\ ByRef(t, g) /\ CanShare(g2)
    /\ Call2("eq", t, g, g2, Ret("bool", guards[g].value = guards[g2].value))

\* PartialEq<T>::eq, lines 182-185.
EqBare(t, g, v) ==
    ByRef(t, g) /\ Call("eq_bare", t, g, guards[g], Ret("bool", guards[g].value = v))

\* PartialOrd<ThreadBound<T>>::partial_cmp, lines 195-199.
PartialCmp(t, g, g2) ==
    /\ ByRef(t, g) /\ CanShare(g2)
    /\ Call2("partial_cmp", t, g, g2,
             Ret("ordering", PayloadCmp(guards[g].value, guards[g2].value)))

\* PartialOrd<T>::partial_cmp, lines 207-210.
PartialCmpBare(t, g, v) ==
    /\ ByRef(t, g)
    /\ Call("partial_cmp_bare", t, g, guards[g],
            Ret("ordering", PayloadCmp(guards[g].value, v)))

\* Ord::cmp, lines 218-222.
Cmp(t, g, g2) ==
    /\ ByRef(t, g) /\ CanShare(g2)
    /\ Call2("cmp", t, g, g2,
             Ret("ordering", PayloadCmp(guards[g].value, guards[g2].value)))

\* Future::poll, lines 256-260.
Poll(t, g) ==
    /\ ByMut(t, g)
    /\ LET r == PayloadPoll(guards[g].value) IN
       Call("poll", t, g, [guards[g] EXCEPT !.value = r.value], r.ret)

\* Stream::poll_next, lines 305-309.
PollNext(t, g) ==
    /\ ByMut(t, g)
    /\ LET r == PayloadPoll(guards[g].value) IN
       Call("poll_next", t, g, [guards[g] EXCEPT !.value = r.value], r.ret)

\* Sink::poll_ready, lines 270-274.
PollReady(t, g) ==
    ByMut(t, g) /\ Call("poll_ready", t, g, guards[g], Ret("poll", "Ready"))

\* Sink::start_send, lines 277-281; the sink keeps the item.
StartSend(t, g, item) ==
    /\ ByMut(t, g)
    /\ Call("start_send", t, g, [guards[g] EXCEPT !.value = item], Ret("sent", item))

\* Sink::poll_flush, lines 284-288.
PollFlush(t, g) ==
    ByMut(t, g) /\ Call("poll_flush", t, g, guards[g], Ret("poll", "Ready"))

\* Sink::poll_close, lines 291-295.
PollClose(t, g) ==
    ByMut(t, g) /\ Call("poll_close", t, g, guards[g], Ret("poll", "Ready"))

\* Drop::drop, lines 241-246, run on thread t.  A panic of check() leaves
\* the payload without its teardown.
Drop(t, g) ==
    /\ ByMut(t, g)
    /\ LET d == DropInPlace(guards[g], t) IN
       /\ guards' = [guards EXCEPT ![g] = Released]
       /\ last' = Outcome("drop", t, g, 0, guards[g], d.this,
                          IF d.panic.panicked THEN "panic" ELSE "ok",
                          d.checks, d.panic, Unit)
    /\ UNCHANGED <<needs_drop, pc>>

\* into_inner with lines 60 and 61 exchanged: taken is set before the check.
IntoInner_takes_first(t, g) ==
    /\ ByMut(t, g)
    /\ LET this == [guards[g] EXCEPT !.taken = TRUE]
           c == check(this, t)
           u == DropInPlace(this, t)
           d == DropInPlace(take_value(this), t) IN
       /\ guards' = [guards EXCEPT ![g] = Released]
       /\ last' = IF c.panicked
                  THEN Outcome("into_inner", t, g, 0, guards[g], u.this,
                               IF u.panic.panicked THEN "abort" ELSE "panic",
                               1 + u.checks, c, Unit)
                  ELSE Outcome("into_inner", t, g, 0, guards[g], d.this, "ok",
                               1 + d.checks, NoPanic, Ret("inner", guards[g].value))
    /\ UNCHANGED <<needs_drop, pc>>

\* ThreadBound::into_inner, lines 59-63.  `this` is owned by the call: it is
\* dropped at the return and, when check() panics, while the panic unwinds; a
\* second panic there aborts the process.
IntoInner(t, g) ==
    /\ ByMut(t, g)
    /\ LET c == check(guards[g], t)
           u == DropInPlace(guards[g], t)
           d == DropInPlace(take_value(guards[g]), t) IN
       /\ guards' = [guards EXCEPT ![g] = Released]
       /\ last' = IF c.panicked
                  THEN Outcome("into_inner", t, g, 0, guards[g], u.this,
                               IF u.panic.panicked THEN "abort" ELSE "panic",
                               1 + u.checks, c, Unit)
                  ELSE IF d.panic.panicked
                  THEN Outcome("into_inner", t, g, 0, guards[g], d.this, "panic",
                               1 + d.checks, d.panic, Unit)
                  ELSE Outcome("into_inner", t, g, 0, guards[g], d.this, "ok",
                               1 + d.checks, NoPanic, Ret("inner", guards[g].value))
    /\ UNCHANGED <<needs_drop, pc>>

Next ==
    \/ Return
    \/ \E t \in Threads, v \in Values : New(t, v)
    \/ \E t \in Threads, v \in Values : ThreadBoundFn(t, v)
    \/ \E t \in Threads : Default(t)
    \/ \E t \in Threads, g \in GuardIds : ThreadId(t, g)
    \/ \E t \in Threads, g \in GuardIds : IsUsable(t, g)
    \/ \E t \in Threads, g \in GuardIds, dest \in Threads : Send(t, g, dest)
    \/ \E t \in Threads, g \in GuardIds : Deref(t, g)
    \/ \E t \in Threads, g \in GuardIds, v \in Values : DerefMut(t, g, v)
    \/ \E t \in Threads, g \in GuardIds : Borrow(t, g)
    \/ \E t \in Threads, g \in GuardIds, v \in Values : BorrowMut(t, g, v)
    \/ \E t \in Threads, g \in GuardIds : Display(t, g)
    \/ \E t \in Threads, g \in GuardIds : Hash(t, g)
    \/ \E t \in Threads, g \in GuardIds : Debug(t, g)
    \/ \E t \in Threads, g \in GuardIds : Clone(t, g)
    \/ \E t \in Threads, g \in GuardIds, g2 \in GuardIds : Eq(t, g, g2)
    \/ \E t \in Threads, g \in GuardIds, v \in Values : EqBare(t, g, v)
    \/ \E t \in Threads, g \in GuardIds, g2 \in GuardIds : PartialCmp(t, g, g2)
    \/ \E t \in Threads, g \in GuardIds, v \in Values : PartialCmpBare(t, g, v)
    \/ \E t \in Threads, g \in GuardIds, g2 \in GuardIds : Cmp(t, g, g2)
    \/ \E t \in Threads, g \in GuardIds : Poll(t, g)
    \/ \E t \in Threads, g \in GuardIds : PollNext(t, g)
    \/ \E t \in Threads, g \in GuardIds : PollReady(t, g)
    \/ \E t \in Threads, g \in GuardIds, item \in Values : StartSend(t, g, item)
    \/ \E t \in Threads, g \in GuardIds : PollFlush(t, g)
    \/ \E t \in Threads, g \in GuardIds : PollClose(t, g)
    \/ \E t \in Threads, g \in GuardIds : Drop(t, g)
    \/ \E t \in Threads, g \in GuardIds : IntoInner(t, g)

Spec == Init /\ [][Next]_vars

----------------------------------------------------------------------------
\* Handlers in two steps: the gate, then the access to the payload.

\* The handlers whose first statement is self.check(), by receiver: &self
\* (lines 88, 122, 143, 151, 170, 182, 195, 207, 218, 230), &mut self or
\* Pin<&mut Self> (lines 96, 159, 256, 270, 277, 284, 291, 305).
RefOps == {"deref", "borrow", "display", "hash", "eq_bare", "partial_cmp_bare"}
RefOps2 == {"eq", "partial_cmp", "cmp"}
MutOps ==
    {"deref_mut", "borrow_mut", "poll", "poll_next", "poll_ready", "start_send",
     "poll_flush", "poll_close"}

\* A thread whose call has panicked, until the panic has unwound.
Unwinding(g) == Inside("panic", g, 0)

\* The process has not aborted.
Alive == last.out # "abort"

\* A gate that lets the owner in and keeps any other thread waiting.
Gate_waits(t, g, mode) ==
    /\ is_usable(guards[g], t)
    /\ pc' = [pc EXCEPT ![t] = Inside(mode, g, 0)]
    /\ UNCHANGED <<needs_drop, guards, last>>

\* The first statement of a handler on thread t, self.check(): past it the
\* thread accesses the payload in the given mode.
Gate(t, g, mode) ==
    /\ pc' = [pc EXCEPT ![t] = IF check(guards[g], t).panicked
                              THEN Unwinding(g) ELSE Inside(mode, g, 0)]
    /\ UNCHANGED <<needs_drop, guards, last>>

\* deref, borrow, fmt (Display), hash, eq and partial_cmp with a bare T.
RefGate(t, g) == ByRef(t, g) /\ Gate(t, g, "read")

\* deref_mut, borrow_mut, poll, poll_next, poll_ready, start_send,
\* poll_flush, poll_close.
MutGate(t, g) == ByMut(t, g) /\ Gate(t, g, "write")

\* eq, partial_cmp, cmp of two objects: self.check(); other.check().
RefGate2(t, g, g2) ==
    /\ ByRef(t, g) /\ CanShare(g2)
    /\ pc' = [pc EXCEPT ![t] =
                IF check(guards[g], t).panicked THEN Unwinding(g)
                ELSE IF check(guards[g2], t).panicked THEN Unwinding(g2)
                ELSE Inside("read", g, g2)]
    /\ UNCHANGED <<needs_drop, guards, last>>

\* clone, lines 143-146.
CloneGate(t, g) == ByRef(t, g) /\ HasRoom /\ Gate(t, g, "clone")

\* fmt (Debug), lines 107-114: the payload is read only if is_usable.
DebugGate(t, g) ==
    /\ ByRef(t, g)
    /\ pc' = IF debug_shows_value(guards[g], t)
             THEN [pc EXCEPT ![t] = Inside("read", g, 0)] ELSE pc
    /\ UNCHANGED <<needs_drop, guards, last>>

\* drop, lines 241-246.
DropGate(t, g) ==
    /\ ByMut(t, g)
    /\ IF drop_checks(guards[g])
       THEN IF check(guards[g], t).panicked
            THEN /\ pc' = [pc EXCEPT ![t] = Unwinding(g)]
                 /\ guards' = [guards EXCEPT ![g] = Released]
            ELSE /\ pc' = [pc EXCEPT ![t] = Inside("drop", g, 0)]
                 /\ guards' = guards
       ELSE /\ pc' = pc
            /\ guards' = [guards EXCEPT ![g] = Released]
    /\ UNCHANGED <<needs_drop, last>>

\* into_inner, lines 59-63: a panic of check() drops `this` while unwinding.
IntoInnerGate(t, g) ==
    /\ ByMut(t, g)
    /\ LET c == check(guards[g], t)
           u == DropInPlace(guards[g], t) IN
       IF c.panicked
       THEN /\ pc' = [pc EXCEPT ![t] = Unwinding(g)]
            /\ guards' = [guards EXCEPT ![g] = Released]
            /\ last' = IF u.panic.panicked
                       THEN Outcome("into_inner", t, g, 0, guards[g], u.this, "abort",
                                    1 + u.checks, c, Unit)
                       ELSE last
       ELSE /\ pc' = [pc EXCEPT ![t] = Inside("take", g, 0)]
            /\ UNCHANGED <<guards, last>>
    /\ UNCHANGED needs_drop

\* new, thread_bound, default: no gate and no access to a payload in place.
NewStep(t, v) ==
    /\ Ready(t) /\ HasRoom
    /\ guards' = [guards EXCEPT ![NextSlot] = new(v, t)]
    /\ UNCHANGED <<needs_drop, pc, last>>

\* The panic has unwound to where it is caught (or the thread's entry point
\* is re-entered by the harness).
Unwind(t) ==
    /\ Alive /\ pc[t].mode = "panic"
    /\ pc' = [pc EXCEPT ![t] = Idle]
    /\ UNCHANGED <<needs_drop, guards, last>>

\* The payload has been read through &self.value.
ReadStep(t) ==
    /\ Alive /\ pc[t].mode = "read"
    /\ pc' = [pc EXCEPT ![t] = Idle]
    /\ UNCHANGED <<needs_drop, guards, last>>

\* The payload has been used through &mut self.value and left as v.
WriteStep(t, v) ==
    /\ Alive /\ pc[t].mode = "write"
    /\ guards' = [guards EXCEPT ![pc[t].g].value = v]
    /\ pc' = [pc EXCEPT ![t] = Idle]
    /\ UNCHANGED <<needs_drop, last>>

\* self.value.clone() and the struct literal, line 145.
CloneStep(t) ==
    /\ Alive /\ pc[t].mode = "clone"
    /\ guards' = [guards EXCEPT ![NextSlot] = clone_of(guards[pc[t].g])]
    /\ pc' = [pc EXCEPT ![t] = Idle]
    /\ UNCHANGED <<needs_drop, last>>

\* Lines 61-62 of into_inner and the drop of `this` at the return.
TakeStep(t) ==
    /\ Alive /\ pc[t].mode = "take"
    /\ guards' = [guards EXCEPT ![pc[t].g] = Released]
    /\ pc' = [pc EXCEPT ![t] =
                IF DropInPlace(take_value(guards[pc[t].g]), t).panic.panicked
                THEN Unwinding(pc[t].g) ELSE Idle]
    /\ UNCHANGED <<needs_drop, last>>

\* ManuallyDrop::drop(&mut self.value), line 244.
TeardownStep(t) ==
    /\ Alive /\ pc[t].mode = "drop"
    /\ guards' = [guards EXCEPT ![pc[t].g] = Released]
    /\ pc' = [pc EXCEPT ![t] = Idle]
    /\ UNCHANGED <<needs_drop, last>>

NextSteps ==
    \/ \E t \in Threads, v \in Values : NewStep(t, v)
    \/ \E t \in Threads, g \in GuardIds : RefGate(t, g)
    \/ \E t \in Threads, g \in GuardIds : MutGate(t, g)
    \/ \E t \in Threads, g \in GuardIds, g2 \in GuardIds : RefGate2(t, g, g2)
    \/ \E t \in Threads, g \in GuardIds : CloneGate(t, g)
    \/ \E t \in Threads, g \in GuardIds : DebugGate(t, g)
    \/ \E t \in Threads, g \in GuardIds : DropGate(t, g)
    \/ \E t \in Threads, g \in GuardIds : IntoInnerGate(t, g)
    \/ \E t \in Threads : Unwind(t)
    \/ \E t \in Threads : ReadStep(t)
    \/ \E t \in Threads, v \in Values : WriteStep(t, v)
    \/ \E t \in Threads : CloneStep(t)
    \/ \E t \in Threads : TakeStep(t)
    \/ \E t \in Threads : TeardownStep(t)

SpecSteps == Init /\ [][NextSteps]_vars

----------------------------------------------------------------------------
\* Properties.

\* The handlers whose first statement is self.check().
GatedOps == RefOps \cup RefOps2 \cup MutOps \cup {"clone", "into_inner"}
Constructors == {"new", "thread_bound", "default"}
Fatal == {"panic", "abort"}

\* The caller of the reported handler is the recorded owner of every object
\* the handler was called on.
CallerOwns ==
    /\ last.t = last.before.thread_id
    /\ last.op \in RefOps2 => last.t = guards[last.g2].thread_id

\* The reported handler has not touched the payload of its object.
PayloadUntouched ==
    /\ last.ret.tag = "unit"
    /\ last.after.value = last.before.value
    /\ last.after.moved = last.before.moved
    /\ last.after.teardowns = last.before.teardowns
    /\ last.after.st = "live" => guards[last.g] = last.before

\* Threads past the gate of a handler on g.
InsidePayload(g) ==
    {t \in Threads : pc[t].mode \in {"read", "write", "clone", "take", "drop"}
                     /\ (pc[t].g = g \/ pc[t].g2 = g)}

\* C1: a gated handler called from a thread other than the recorded owner of
\* an object it is called on ends in the panic of check() (or the abort that
\* follows a second such panic) and has not touched the payload.
C1_WrongThreadIsFatal ==
    (last.op \in GatedOps /\ ~CallerOwns) => (last.out \in Fatal /\ PayloadUntouched)

C1_Witness ==
    /\ last.op = "start_send" /\ last.out = "panic"
    /\ last.t # last.before.thread_id /\ last.before.value = 1

\* C2: with the gate and the payload access as separate steps, a thread that
\* is past the gate of an object is the recorded owner of that object, and no
\* two threads are past the gate of the same object.
C2_OnlyOwnerInsidePayload ==
    \A g \in GuardIds :
        /\ \A t \in InsidePayload(g) : t = guards[g].thread_id
        /\ \A t1 \in InsidePayload(g), t2 \in InsidePayload(g) : t1 = t2

\* The owner reads the payload of an object while a call of another thread on
\* the same object unwinds.
C2_Witness ==
    \E g \in GuardIds, t1 \in Threads, t2 \in Threads :
        /\ t1 # t2 /\ t1 \in InsidePayload(g) /\ pc[t2] = Unwinding(g)

\* C3: a gated handler fails exactly when its caller is not the recorded
\* owner, the failure is the panic of check() with the caller's and the
\* owner's ids, and new, thread_bound, default, thread_id and is_usable never
\* fail.
C3_FailsIffWrongThread ==
    /\ last.op \in GatedOps => (last.out \in Fatal <=> ~CallerOwns)
    /\ last.out \in Fatal =>
          /\ last.panic.panicked /\ last.panic.current = last.t
          /\ last.panic.current # last.panic.thread_id
    /\ last.op \in Constructors \cup {"thread_id", "is_usable"} =>
          (last.out = "ok" /\ last.checks = 0)

C3_Witness ==
    /\ last.op = "deref_mut" /\ last.out = "ok" /\ last.t = 2
    /\ last.before.thread_id = 2 /\ guards[last.g].value # last.before.value

\* C4: an object constructed on thread O records O, is not taken and is
\* usable from O; is_usable returns whether the caller is the recorded owner
\* and thread_id returns the recorded owner, from any thread, without fail.
C4_ConstructionBindsCaller ==
    /\ last.op \in Constructors =>
          /\ last.out = "ok"
          /\ guards[last.g].st = "live"
          /\ guards[last.g].thread_id = last.t
          /\ ~guards[last.g].taken
    /\ last.op = "is_usable" =>
          (last.out = "ok" /\ last.ret.v = (last.t = guards[last.g].thread_id))
    /\ last.op = "thread_id" =>
          (last.out = "ok" /\ last.ret.v = guards[last.g].thread_id)

C4_Witness ==
    /\ last.op = "default" /\ last.t = 2
    /\ guards[last.g].thread_id = 2 /\ guards[last.g].value = PayloadDefault

\* C5: no step changes the recorded thread_id of an object, whichever thread
\* takes it and whether or not it succeeds.
C5_OwnerNeverChanges ==
    [][\A g \in GuardIds :
          (guards[g].st = "live" /\ guards'[g].st = "live") =>
              guards'[g].thread_id = guards[g].thread_id]_vars

\* An object has been moved to a thread that is not its owner.
C5_Witness ==
    /\ last.op = "send" /\ last.ret.v # last.before.thread_id
    /\ guards[last.g].thread_id = last.before.thread_id

\* C6: a successful into_inner returns the payload that was stored and the
\* drop of the object that follows does not run the payload's teardown; no
\* handler leaves an object with more than one teardown of its payload, or
\* with a teardown of a payload that was moved out.
C6_ExtractedNotTornDown ==
    /\ (last.op = "into_inner" /\ last.out = "ok") =>
          /\ last.ret.tag = "inner" /\ last.ret.v = last.before.value
          /\ last.after.moved /\ last.after.teardowns = 0
    /\ last.after.teardowns <= 1
    /\ last.after.moved => last.after.teardowns = 0

C6_Witness ==
    /\ needs_drop /\ last.op = "into_inner" /\ last.out = "ok"
    /\ last.ret.v = 1 /\ guards[last.g].st = "gone"

\* C7: the drop of an object that was never taken, with a payload type that
\* needs drop, makes the check first: on the owner's thread the teardown runs
\* once, on another thread the drop panics and the teardown does not run.
C7_DropGatedBeforeTeardown ==
    (last.op = "drop" /\ needs_drop /\ ~last.before.taken) =>
        /\ last.checks = 1
        /\ last.t = last.before.thread_id =>
              (last.out = "ok" /\ last.after.teardowns = 1)
        /\ last.t # last.before.thread_id =>
              (last.out = "panic" /\ last.after.teardowns = 0)

C7_Witness ==
    /\ last.op = "drop" /\ needs_drop /\ last.t # last.before.thread_id
    /\ last.out = "panic" /\ guards[last.g].st = "gone"

\* C8: with a payload type that does not need drop, the drop of an object
\* makes no check and does not fail, on any thread, taken or not (the drop at
\* the end of into_inner adds no check to the one into_inner makes).
C8_TrivialDropUngated ==
    /\ (last.op = "drop" /\ ~needs_drop) =>
          (last.checks = 0 /\ last.out = "ok" /\ last.after.teardowns = 0)
    /\ (last.op = "into_inner" /\ ~needs_drop) =>
          (last.checks = 1 /\ last.out # "abort" /\ last.after.teardowns = 0)

C8_Witness ==
    /\ last.op = "drop" /\ ~needs_drop /\ last.t # last.before.thread_id
    /\ last.out = "ok" /\ guards[last.g].st = "gone"

\* C9: Debug::fmt never fails; it renders the thread_id from any thread and
\* the value exactly when the caller is the recorded owner.
C9_DebugNeverFails ==
    last.op = "debug" =>
        /\ last.out = "ok" /\ last.checks = 0
        /\ last.ret.v.thread_id = <<guards[last.g].thread_id>>
        /\ last.ret.v.value = IF last.t = guards[last.g].thread_id
                              THEN <<guards[last.g].value>> ELSE <<>>
        /\ guards[last.g] = last.before

C9_Witness ==
    /\ last.op = "debug" /\ last.t # guards[last.g].thread_id
    /\ last.ret.v.value = <<>> /\ guards[last.g].value = 1

\* C10: a successful clone is a new object with the recorded owner and the
\* payload of the source, not taken; the source is as it was.
C10_CloneKeepsOwner ==
    (last.op = "clone" /\ last.out = "ok") =>
        /\ last.g2 # last.g /\ last.before.st = "live"
        /\ guards[last.g2].st = "live"
        /\ guards[last.g2].thread_id = last.before.thread_id
        /\ guards[last.g2].value = last.before.value
        /\ ~guards[last.g2].taken
        /\ guards[last.g] = last.before

C10_Witness ==
    /\ last.op = "clone" /\ last.out = "ok"
    /\ last.before.thread_id = 2 /\ last.before.value = 1
    /\ guards[last.g2] = last.before

\* The result of the payload's own comparison for handler op.
PayloadResult(op, a, b) ==
    IF op \in {"eq", "eq_bare"} THEN Ret("bool", a = b)
    ELSE Ret("ordering", PayloadCmp(a, b))

\* C11: eq, partial_cmp and cmp of two objects check self, then other, and
\* only then compare the payloads: the result is returned only to a caller
\* that owns both, and is the payloads' own comparison; eq and partial_cmp
\* with a bare T check only self.
C11_ComparisonGatesBoth ==
    /\ last.op \in RefOps2 =>
          /\ last.t # guards[last.g].thread_id =>
                (last.out = "panic" /\ last.checks = 1 /\ last.ret.tag = "unit")
          /\ (last.t = guards[last.g].thread_id /\ last.t # guards[last.g2].thread_id) =>
                (last.out = "panic" /\ last.checks = 2 /\ last.ret.tag = "unit")
          /\ (last.t = guards[last.g].thread_id /\ last.t = guards[last.g2].thread_id) =>
                /\ last.out = "ok" /\ last.checks = 2
                /\ last.ret = PayloadResult(last.op, guards[last.g].value,
                                            guards[last.g2].value)
    /\ last.op \in {"eq_bare", "partial_cmp_bare"} =>
          /\ last.checks = 1
          /\ last.out = "ok" <=> last.t = guards[last.g].thread_id
          /\ last.out = "ok" =>
                \E v \in Values :
                    last.ret = PayloadResult(last.op, guards[last.g].value, v)

\* The caller owns self but not other: the second check refuses it.
C11_Witness ==
    /\ last.op = "cmp" /\ last.out = "panic" /\ last.checks = 2
    /\ last.t = guards[last.g].thread_id /\ last.t # guards[last.g2].thread_id

PollOps ==
    {"poll", "poll_next", "poll_ready", "start_send", "poll_flush", "poll_close"}

\* C12: every poll, poll_next, poll_ready, start_send, poll_flush and
\* poll_close makes its own check: from another thread than the owner it
\* panics and leaves the object as it was, so that the owner's next poll
\* finds the payload where its previous poll left it; from the owner it is
\* the payload's own step, whatever calls came before.
C12_EveryPollChecks ==
    last.op \in PollOps =>
        /\ last.checks = 1
        /\ last.t # last.before.thread_id =>
              /\ last.out = "panic" /\ last.ret.tag = "unit"
              /\ guards[last.g] = last.before
        /\ last.t = last.before.thread_id =>
              /\ last.out = "ok" /\ guards[last.g] = last.after
              /\ last.op \in {"poll", "poll_next"} =>
                    /\ last.after.value = PayloadPoll(last.before.value).value
                    /\ last.ret = PayloadPoll(last.before.value).ret

\* A future that the owner has polled part of the way is polled from
\* another thread.
C12_Witness ==
    /\ last.op = "poll" /\ last.out = "panic"
    /\ last.t # last.before.thread_id
    /\ last.before.value > 0 /\ PayloadPoll(guards[last.g].value).ret.v = "Ready"

Probes == {"thread_id", "is_usable"}

PayloadStep(t) ==
    \/ Unwind(t) \/ ReadStep(t) \/ CloneStep(t) \/ TakeStep(t) \/ TeardownStep(t)
    \/ \E v \in Values : WriteStep(t, v)

\* C14: no thread waits for another.  A call that the borrow rules allow
\* passes or fails its gate at once, whoever owns the object, and a thread
\* inside a handler can take the handler's last step, whatever the other
\* threads do, as long as the process has not aborted.
C14_RefusedNotBlocked ==
    \A t \in Threads :
        /\ (pc[t].mode # "idle" /\ Alive) => ENABLED PayloadStep(t)
        /\ \A g \in GuardIds :
              /\ ByRef(t, g) => ENABLED RefGate(t, g)
              /\ ByMut(t, g) =>
                    (ENABLED MutGate(t, g) /\ ENABLED DropGate(t, g)
                     /\ ENABLED IntoInnerGate(t, g))

\* A thread that is not the owner has been refused while no other thread is
\* inside a handler.
C14_Witness ==
    \E t \in Threads, g \in GuardIds :
        /\ pc[t] = Unwinding(g) /\ guards[g].st = "live"
        /\ t # guards[g].thread_id
        /\ \A u \in Threads \ {t} : pc[u] = Idle

\* C15: every panic of check() names the type, the calling thread and the
\* thread_id of the object whose check failed, which differ; in a comparison
\* of two objects that object is self if the caller does not own self, and
\* other otherwise.
C15_PanicMessage ==
    last.out \in Fatal =>
        /\ last.panic.panicked
        /\ last.panic.type_name = TypeName
        /\ last.panic.current = last.t
        /\ last.panic.current # last.panic.thread_id
        /\ last.op \notin RefOps2 => last.panic.thread_id = last.before.thread_id
        /\ last.op \in RefOps2 =>
              last.panic.thread_id =
                  IF last.t # guards[last.g].thread_id
                  THEN guards[last.g].thread_id ELSE guards[last.g2].thread_id

\* The panic of eq names the owner of other, who is not the owner of self.
C15_Witness ==
    /\ last.op = "eq" /\ last.out = "panic"
    /\ last.panic.thread_id = guards[last.g2].thread_id
    /\ last.panic.thread_id # guards[last.g].thread_id

\* C16: an object is live from its construction until into_inner or drop
\* consumes it; nothing is called on a consumed object and a consumed object
\* never changes again; its payload has been moved out exactly when it was
\* consumed by a successful into_inner, so no object is both extracted and
\* destroyed.
C16_Lifecycle ==
    [][/\ \A g \in GuardIds :
             /\ guards[g].st = "gone" => guards'[g] = guards[g]
             /\ (guards[g].st # "live" /\ guards'[g].st = "live") =>
                   (guards[g].st = "free" /\ last'.op \in Constructors \cup {"clone"})
             /\ (guards[g].st = "live" /\ guards'[g].st = "gone") =>
                   /\ last'.g = g /\ last'.op \in {"into_inner", "drop"}
                   /\ last'.after.moved <=>
                         (last'.op = "into_inner" /\ last'.out = "ok")
       /\ (last' # last /\ last'.op \notin Constructors \cup {"none"}) =>
             guards[last'.g].st = "live"]_vars

\* Every object of the run has been consumed, the last one by into_inner.
C16_Witness ==
    /\ \A g \in GuardIds : guards[g].st = "gone"
    /\ last.op = "into_inner" /\ last.after.moved

\* C17: an object that a handler can be called on has taken = FALSE; taken
\* is set only by a successful into_inner, on the object it consumes; a
\* clone is never taken.
C17_LiveNeverTaken ==
    /\ \A g \in GuardIds : guards[g].st = "live" => ~guards[g].taken
    /\ ~last.before.taken
    /\ last.after.taken <=> (last.op = "into_inner" /\ last.out = "ok")

\* Every object of the run is live, the newest of them a clone.
C17_Witness ==
    /\ last.op = "clone" /\ last.out = "ok" /\ needs_drop
    /\ \A g \in GuardIds : guards[g].st = "live"

\* C18: into_inner from a thread that is not the owner returns nothing and
\* does not set taken; the object is consumed and is dropped with taken =
\* FALSE: if T needs drop the check is made a second time and the teardown
\* does not run, otherwise the drop does nothing.
C18_IntoInnerRefused ==
    (last.op = "into_inner" /\ last.t # last.before.thread_id) =>
        /\ last.out \in Fatal /\ last.ret.tag = "unit"
        /\ ~last.after.taken /\ ~last.after.moved
        /\ last.after.st = "gone" /\ guards[last.g].st = "gone"
        /\ last.after.teardowns = 0
        /\ last.checks = IF needs_drop THEN 2 ELSE 1
        /\ last.out = "abort" <=> needs_drop

C18_Witness ==
    /\ last.op = "into_inner" /\ last.t # last.before.thread_id
    /\ needs_drop /\ last.checks = 2

\* C19: eq, partial_cmp and cmp of two objects whose thread_ids differ
\* panic on every thread; they return only when both objects have the
\* caller's thread_id.
C19_DifferentOwnersNeverCompare ==
    last.op \in RefOps2 =>
        /\ guards[last.g].thread_id # guards[last.g2].thread_id => last.out = "panic"
        /\ last.out = "ok" =>
              /\ guards[last.g].thread_id = last.t
              /\ guards[last.g2].thread_id = last.t

\* The owner of self compares it with an object of another thread.
C19_Witness ==
    /\ last.op = "partial_cmp" /\ last.out = "panic"
    /\ last.t = guards[last.g].thread_id
    /\ guards[last.g].thread_id # guards[last.g2].thread_id

----------------------------------------------------------------------------
\* Threads that end.  thread::current().id() (lines 46 and 68) is unique to a
\* thread for the life of the process: a thread that has ended calls nothing
\* any more and no other thread ever has its id.  The threads that have not
\* called anything yet stand for the threads spawned later.  No handler
\* tells one thread id from another but by equality, so it is enough to let
\* the threads end in the order of their ids, the highest first.
Exited == [mode |-> "exited", g |-> 0, g2 |-> 0]

Exit(t) ==
    /\ Ready(t)
    /\ \A u \in Threads : u > t => pc[u] = Exited
    /\ pc' = [pc EXCEPT ![t] = Exited]
    /\ UNCHANGED <<needs_drop, guards, last>>

NextExit == Next \/ \E t \in Threads : Exit(t)

SpecExit == Init /\ [][NextExit]_vars

HasExited(t) == t \in Threads /\ pc[t] = Exited

\* C20: once the thread that an object is bound to has ended, every handler
\* called on the object is called from another thread: is_usable returns
\* FALSE, every gated handler panics without touching the payload, and if T
\* needs drop both drop and into_inner fail and the teardown does not run.
C20_OwnerGoneNeverUsable ==
    /\ (last.op \notin Constructors \cup {"none"} /\ HasExited(last.before.thread_id)) =>
          /\ last.t # last.before.thread_id
          /\ last.op = "is_usable" => last.ret.v = FALSE
          /\ last.op \in GatedOps => (last.out \in Fatal /\ PayloadUntouched)
          /\ (needs_drop /\ last.op \in {"drop", "into_inner"}) =>
                (last.out \in Fatal /\ last.after.teardowns = 0)
    /\ (last.op \in RefOps2 /\ HasExited(guards[last.g2].thread_id)) =>
          last.out \in Fatal

\* The object of a thread that has ended is dropped by the thread it was
\* moved to.
C20_Witness ==
    /\ last.op = "drop" /\ needs_drop /\ last.out = "panic"
    /\ HasExited(last.before.thread_id) /\ last.after.teardowns = 0

====
